---- MODULE Spec2Model ----
(***************************************************************************)
(* Karibu Groceries backend: procurement and sales routes over the         *)
(* Procurement and Sale (Cash / Credit discriminators) collections.        *)
(*                                                                         *)
(* Request bodies are modelled as express-validator sees them: every field *)
(* is the string form of the JSON value, and Undefined stands for a field  *)
(* that is not in the body.  Time is a counter of clock ticks; a Date is   *)
(* the tick it denotes.                                                    *)
(***************************************************************************)
EXTENDS Integers, Sequences, FiniteSets, TLC

(***************************************************************************)
(* Bounds of the model.                                                    *)
(***************************************************************************)
MaxRecords == 2
MaxClock == 1
MaxPayments == 2

(***************************************************************************)
(* Strings.                                                                *)
(***************************************************************************)
Undefined == "<undefined>"

Digits == {"0", "1", "2", "3", "4", "5", "6", "7", "8", "9"}
Lower == {"a", "b", "c", "d", "e", "f", "g", "h", "i", "j", "k", "l", "m",
          "n", "o", "p", "q", "r", "s", "t", "u", "v", "w", "x", "y", "z"}
Upper == {"A", "B", "C", "D", "E", "F", "G", "H", "I", "J", "K", "L", "M",
          "N", "O", "P", "Q", "R", "S", "T", "U", "V", "W", "X", "Y", "Z"}
Space == {" "}
Letters == Lower \cup Upper
LettersSpace == Letters \cup Space
AlnumSpace == Letters \cup Digits \cup Space
UpperDigits == Upper \cup Digits

Char(s, i) == SubSeq(s, i, i)

AllIn(s, C) == \A i \in 1..Len(s) : Char(s, i) \in C

\* express-validator validates the string form of a value; a missing field is ''
StringOf(v) == IF v = Undefined THEN "" ELSE v

RECURSIVE TrimLeft(_)
TrimLeft(s) == IF Len(s) > 0 /\ Char(s, 1) \in Space THEN TrimLeft(Tail(s)) ELSE s

RECURSIVE TrimRight(_)
TrimRight(s) ==
    IF Len(s) > 0 /\ Char(s, Len(s)) \in Space
    THEN TrimRight(SubSeq(s, 1, Len(s) - 1))
    ELSE s

Trim(s) == TrimRight(TrimLeft(s))

DigitVal(c) == CHOOSE d \in 0..9 : Char("0123456789", d + 1) = c

RECURSIVE ParseNat(_)
ParseNat(s) ==
    IF Len(s) = 0 THEN 0
    ELSE 10 * ParseNat(SubSeq(s, 1, Len(s) - 1)) + DigitVal(Char(s, Len(s)))

(***************************************************************************)
(* Regular expressions of the routes and the schemas.                      *)
(***************************************************************************)
\* /^[a-zA-Z0-9\s]+$/
MatchAlnumSpace(s) == Len(s) >= 1 /\ AllIn(s, AlnumSpace)

\* /^[a-zA-Z\s]+$/
MatchLetters(s) == Len(s) >= 1 /\ AllIn(s, LettersSpace)

\* /^[0-9]{10,12}$/
MatchPhone(s) == Len(s) >= 10 /\ Len(s) <= 12 /\ AllIn(s, Digits)

\* /^[A-Z0-9]{10,15}$/
MatchNIN(s) == Len(s) >= 10 /\ Len(s) <= 15 /\ AllIn(s, UpperDigits)

\* /^([0-1]?[0-9]|2[0-3]):[0-5][0-9]$/
MatchTime(s) ==
    \/ /\ Len(s) = 4
       /\ Char(s, 1) \in Digits
       /\ Char(s, 2) = ":"
       /\ Char(s, 3) \in {"0", "1", "2", "3", "4", "5"}
       /\ Char(s, 4) \in Digits
    \/ /\ Len(s) = 5
       /\ \/ Char(s, 1) \in {"0", "1"} /\ Char(s, 2) \in Digits
          \/ Char(s, 1) = "2" /\ Char(s, 2) \in {"0", "1", "2", "3"}
       /\ Char(s, 3) = ":"
       /\ Char(s, 4) \in {"0", "1", "2", "3", "4", "5"}
       /\ Char(s, 5) \in Digits

(***************************************************************************)
(* Numbers.  A number is [neg, whole, frac]: sign, integer part and the    *)
(* fractional digits without trailing zeros.                               *)
(***************************************************************************)
HasSign(s) == Len(s) > 0 /\ Char(s, 1) \in {"-", "+"}

Unsigned(s) == IF HasSign(s) THEN Tail(s) ELSE s

DotPos(s) == IF \E i \in 1..Len(s) : Char(s, i) = "."
             THEN CHOOSE i \in 1..Len(s) : Char(s, i) = "." /\ \A j \in 1..(i - 1) : Char(s, j) # "."
             ELSE 0

WholeDigits(u) == IF DotPos(u) = 0 THEN u ELSE SubSeq(u, 1, DotPos(u) - 1)

FracDigits(u) == IF DotPos(u) = 0 THEN "" ELSE SubSeq(u, DotPos(u) + 1, Len(u))

RECURSIVE StripZeros(_)
StripZeros(s) ==
    IF Len(s) > 0 /\ Char(s, Len(s)) = "0"
    THEN StripZeros(SubSeq(s, 1, Len(s) - 1))
    ELSE s

\* decimal numerals: optional sign, digits, optional point and digits
\* (exponents are not among the modelled inputs)
IsNumeral(s) ==
    LET u == Unsigned(s)
    IN  /\ AllIn(WholeDigits(u), Digits)
        /\ AllIn(FracDigits(u), Digits)
        /\ Len(WholeDigits(u)) + Len(FracDigits(u)) >= 1

\* Number(s) for a numeral s
ToNumber(s) ==
    LET u == Unsigned(s)
        w == ParseNat(WholeDigits(u))
        f == StripZeros(FracDigits(u))
    IN  [neg |-> (Len(s) > 0 /\ Char(s, 1) = "-" /\ (w > 0 \/ f # "")),
         whole |-> w, frac |-> f]

NumIsInteger(n) == n.frac = ""

\* n >= m for an integer m >= 0
NumAtLeast(n, m) == IF n.neg THEN FALSE ELSE n.whole >= m

\* validator.js isInt: /^[-+]?[0-9]+$/ and str >= min
IsInt(s, min) ==
    /\ Len(Unsigned(s)) >= 1
    /\ AllIn(Unsigned(s), Digits)
    /\ NumAtLeast(ToNumber(s), min)

\* validator.js isFloat: a decimal numeral with parseFloat(str) >= min
IsFloat(s, min) == IsNumeral(s) /\ NumAtLeast(ToNumber(s), min)

\* validator.js isISO8601 on the calendar-date form YYYY-MM-DD
IsISO8601(s) ==
    /\ Len(s) = 10
    /\ AllIn(SubSeq(s, 1, 4), Digits)
    /\ Char(s, 5) = "-"
    /\ AllIn(SubSeq(s, 6, 7), Digits)
    /\ Char(s, 8) = "-"
    /\ AllIn(SubSeq(s, 9, 10), Digits)
    /\ ParseNat(SubSeq(s, 6, 7)) \in 1..12
    /\ ParseNat(SubSeq(s, 9, 10)) \in 1..31

(***************************************************************************)
(* Dates.  The clock counts days; Clock0 is the day the server starts.     *)
(***************************************************************************)
NoDate == -1

\* the Date object a handler builds with new Date()
NewDate == "<new Date()>"

DayNumber(s) ==
    (ParseNat(SubSeq(s, 1, 4)) * 12 + (ParseNat(SubSeq(s, 6, 7)) - 1)) * 31
        + ParseNat(SubSeq(s, 9, 10))

Clock0 == DayNumber("2024-01-01")

(***************************************************************************)
(* Route validators (express-validator chains).                            *)
(***************************************************************************)
V(field, check, arg, msg) == [field |-> field, check |-> check, arg |-> arg, msg |-> msg]

Branches == {"Maganjo", "Matugga"}

\* one validator of a chain applied to the string form of the field
Passes(v, s) ==
    CASE v.check = "matchAlnumSpace" -> MatchAlnumSpace(s)
      [] v.check = "matchLetters" -> MatchLetters(s)
      [] v.check = "matchTime" -> MatchTime(s)
      [] v.check = "matchPhone" -> MatchPhone(s)
      [] v.check = "matchNIN" -> MatchNIN(s)
      [] v.check = "isLength" -> Len(s) >= v.arg
      [] v.check = "isInt" -> IsInt(s, v.arg)
      [] v.check = "isFloat" -> IsFloat(s, v.arg)
      [] v.check = "isInBranch" -> s \in Branches
      [] v.check = "isISO8601" -> IsISO8601(s)
      [] v.check = "notEmpty" -> s # ""

\* the procurement chains with isInt({ min: 10 }) on tonnage
ProcurementValidatorsLoose ==
    << V("produceName", "matchAlnumSpace", 0, "Produce name must be alphanumeric"),
       V("produceType", "isLength", 2, "Produce type must be at least 2 characters"),
       V("produceType", "matchLetters", 0, "Produce type must contain only letters"),
       V("time", "matchTime", 0, "Please enter valid time (HH:MM)"),
       V("tonnage", "isInt", 10, "Tonnage must be at least 100 kg"),
       V("cost", "isFloat", 10000, "Cost must be at least 10,000 UgX"),
       V("dealerName", "isLength", 2, "Dealer name must be at least 2 characters"),
       V("dealerName", "matchAlnumSpace", 0, "Dealer name must be alphanumeric"),
       V("branch", "isInBranch", 0, "Branch must be Maganjo or Matugga"),
       V("contact", "matchPhone", 0, "Please enter a valid phone number"),
       V("sellingPrice", "isFloat", 1000, "Selling price must be at least 1,000 UgX") >>

ProcurementValidators ==
    << V("produceName", "matchAlnumSpace", 0, "Produce name must be alphanumeric"),
       V("produceType", "isLength", 2, "Produce type must be at least 2 characters"),
       V("produceType", "matchLetters", 0, "Produce type must contain only letters"),
       V("time", "matchTime", 0, "Please enter valid time (HH:MM)"),
       V("tonnage", "isInt", 100, "Tonnage must be at least 100 kg"),
       V("cost", "isFloat", 10000, "Cost must be at least 10,000 UgX"),
       V("dealerName", "isLength", 2, "Dealer name must be at least 2 characters"),
       V("dealerName", "matchAlnumSpace", 0, "Dealer name must be alphanumeric"),
       V("branch", "isInBranch", 0, "Branch must be Maganjo or Matugga"),
       V("contact", "matchPhone", 0, "Please enter a valid phone number"),
       V("sellingPrice", "isFloat", 1000, "Selling price must be at least 1,000 UgX") >>

CashValidators ==
    << V("produceName", "notEmpty", 0, "Produce name is required"),
       V("tonnage", "isInt", 1, "Tonnage must be at least 1 kg"),
       V("amountPaid", "isFloat", 10000, "Amount paid must be at least 10,000 UgX"),
       V("buyerName", "isLength", 2, "Buyer name must be at least 2 characters"),
       V("buyerName", "matchAlnumSpace", 0, "Buyer name must be alphanumeric"),
       V("salesAgentName", "isLength", 2, "Sales agent name must be at least 2 characters"),
       V("salesAgentName", "matchAlnumSpace", 0, "Sales agent name must be alphanumeric"),
       V("time", "matchTime", 0, "Please enter valid time (HH:MM)") >>

CreditValidators ==
    << V("buyerName", "isLength", 2, "Buyer name must be at least 2 characters"),
       V("buyerName", "matchAlnumSpace", 0, "Buyer name must be alphanumeric"),
       V("nationalId", "matchNIN", 0, "Please enter a valid NIN"),
       V("location", "isLength", 2, "Location must be at least 2 characters"),
       V("location", "matchAlnumSpace", 0, "Location must be alphanumeric"),
       V("contacts", "matchPhone", 0, "Please enter a valid phone number"),
       V("amountDue", "isFloat", 10000, "Amount due must be at least 10,000 UgX"),
       V("salesAgentName", "isLength", 2, "Sales agent name must be at least 2 characters"),
       V("salesAgentName", "matchAlnumSpace", 0, "Sales agent name must be alphanumeric"),
       V("dueDate", "isISO8601", 0, "Please enter a valid due date"),
       V("produceName", "notEmpty", 0, "Produce name is required"),
       V("produceType", "notEmpty", 0, "Produce type is required"),
       V("tonnage", "isInt", 1, "Tonnage must be at least 1 kg") >>

\* running every validator of the chains, first-error-only variant
RECURSIVE RunValidatorsFailFast(_, _)
RunValidatorsFailFast(chain, body) ==
    IF chain = << >> THEN << >>
    ELSE IF ~Passes(Head(chain), StringOf(body[Head(chain).field]))
         THEN << [field |-> Head(chain).field, msg |-> Head(chain).msg] >>
         ELSE RunValidatorsFailFast(Tail(chain), body)

\* the validators all run; validationResult(req).array() is every error, in order
RECURSIVE RunValidators(_, _)
RunValidators(chain, body) ==
    IF chain = << >> THEN << >>
    ELSE (IF Passes(Head(chain), StringOf(body[Head(chain).field]))
          THEN << >>
          ELSE << [field |-> Head(chain).field, msg |-> Head(chain).msg] >>)
         \o RunValidators(Tail(chain), body)

(***************************************************************************)
(* Mongoose schemas.  A path is [path, type, required, trim, minlength,    *)
(* match, min, integer, enum, default]; minlength 0, match "", min -1 and  *)
(* default "" mean that the option is not set.                             *)
(***************************************************************************)
P(path, type, required, trim, minlength, match, min, integer, enum, default) ==
    [path |-> path, type |-> type, required |-> required, trim |-> trim,
     minlength |-> minlength, match |-> match, min |-> min, integer |-> integer,
     enum |-> enum, default |-> default]

procurementSchema ==
    << P("produceName", "String", TRUE, TRUE, 0, "alnumSpace", -1, FALSE, FALSE, ""),
       P("produceType", "String", TRUE, TRUE, 2, "letters", -1, FALSE, FALSE, ""),
       P("date", "Date", TRUE, FALSE, 0, "", -1, FALSE, FALSE, "Date.now"),
       P("time", "String", TRUE, FALSE, 0, "time", -1, FALSE, FALSE, ""),
       P("tonnage", "Number", TRUE, FALSE, 0, "", 100, TRUE, FALSE, ""),
       P("cost", "Number", TRUE, FALSE, 0, "", 10000, FALSE, FALSE, ""),
       P("dealerName", "String", TRUE, TRUE, 2, "alnumSpace", -1, FALSE, FALSE, ""),
       P("branch", "String", TRUE, FALSE, 0, "", -1, FALSE, TRUE, ""),
       P("contact", "String", TRUE, FALSE, 0, "phone", -1, FALSE, FALSE, ""),
       P("sellingPrice", "Number", TRUE, FALSE, 0, "", 1000, FALSE, FALSE, ""),
       P("recordedBy", "ObjectId", TRUE, FALSE, 0, "", -1, FALSE, FALSE, ""),
       P("createdAt", "Date", FALSE, FALSE, 0, "", -1, FALSE, FALSE, "Date.now") >>

saleSchema ==
    << P("recordedBy", "ObjectId", TRUE, FALSE, 0, "", -1, FALSE, FALSE, ""),
       P("createdAt", "Date", FALSE, FALSE, 0, "", -1, FALSE, FALSE, "Date.now") >>

CashSaleSchema ==
    saleSchema \o
    << P("produceName", "String", TRUE, TRUE, 0, "", -1, FALSE, FALSE, ""),
       P("tonnage", "Number", TRUE, FALSE, 0, "", 1, FALSE, FALSE, ""),
       P("amountPaid", "Number", TRUE, FALSE, 0, "", 10000, FALSE, FALSE, ""),
       P("buyerName", "String", TRUE, TRUE, 2, "alnumSpace", -1, FALSE, FALSE, ""),
       P("salesAgentName", "String", TRUE, TRUE, 2, "alnumSpace", -1, FALSE, FALSE, ""),
       P("date", "Date", TRUE, FALSE, 0, "", -1, FALSE, FALSE, "Date.now"),
       P("time", "String", TRUE, FALSE, 0, "time", -1, FALSE, FALSE, "") >>

CreditSaleSchema ==
    saleSchema \o
    << P("buyerName", "String", TRUE, TRUE, 2, "alnumSpace", -1, FALSE, FALSE, ""),
       P("nationalId", "String", TRUE, FALSE, 0, "nin", -1, FALSE, FALSE, ""),
       P("location", "String", TRUE, TRUE, 2, "alnumSpace", -1, FALSE, FALSE, ""),
       P("contacts", "String", TRUE, FALSE, 0, "phone", -1, FALSE, FALSE, ""),
       P("amountDue", "Number", TRUE, FALSE, 0, "", 10000, FALSE, FALSE, ""),
       P("salesAgentName", "String", TRUE, TRUE, 2, "alnumSpace", -1, FALSE, FALSE, ""),
       P("dueDate", "Date", TRUE, FALSE, 0, "", -1, FALSE, FALSE, ""),
       P("produceName", "String", TRUE, TRUE, 0, "", -1, FALSE, FALSE, ""),
       P("produceType", "String", TRUE, TRUE, 0, "", -1, FALSE, FALSE, ""),
       P("tonnage", "Number", TRUE, FALSE, 0, "", 1, FALSE, FALSE, ""),
       P("dispatchDate", "Date", TRUE, FALSE, 0, "", -1, FALSE, FALSE, "Date.now"),
       P("isPaid", "Boolean", FALSE, FALSE, 0, "", -1, FALSE, FALSE, "false"),
       P("paymentDate", "Date", FALSE, FALSE, 0, "", -1, FALSE, FALSE, "") >>

SchemaMatch(name, s) ==
    CASE name = "alnumSpace" -> MatchAlnumSpace(s)
      [] name = "letters" -> MatchLetters(s)
      [] name = "time" -> MatchTime(s)
      [] name = "phone" -> MatchPhone(s)
      [] name = "nin" -> MatchNIN(s)

\* the value given for a path: paths the data does not name are undefined
Given(data, path) == IF path \in DOMAIN data THEN data[path] ELSE Undefined

\* can the given value be cast to the path's type
CastOk(p, v) ==
    CASE v = Undefined -> TRUE
      [] p.type = "String" -> TRUE
      [] p.type = "ObjectId" -> TRUE
      [] p.type = "Number" -> v = "" \/ IsNumeral(v)
      [] p.type = "Date" -> v \in {"", NewDate} \/ IsISO8601(v)
      [] p.type = "Boolean" -> v \in {"true", "1", "yes", "false", "0", "no"}

\* is the path left without a value (null or undefined) after casting and defaults
IsNull(p, v) ==
    CASE v = Undefined -> p.default = ""
      [] p.type \in {"Number", "Date"} -> v = ""
      [] OTHER -> FALSE

StringValue(p, v) == IF p.trim THEN Trim(v) ELSE v

DateValue(p, v, now) ==
    IF IsNull(p, v) THEN NoDate
    ELSE IF v \in {Undefined, NewDate} THEN now
    ELSE DayNumber(v)

BooleanValue(p, v) == IF v = Undefined THEN FALSE ELSE v \in {"true", "1", "yes"}

\* the validators of one path: required, minlength, match, enum, min, integer
PathValid(p, v) ==
    /\ CastOk(p, v)
    /\ p.required =>
          /\ ~IsNull(p, v)
          /\ p.type = "String" => StringValue(p, v) # ""
    /\ (p.type = "String" /\ v # Undefined) =>
          LET s == StringValue(p, v)
          IN  /\ p.minlength > 0 => Len(s) >= p.minlength
              /\ (p.match # "" /\ s # "") => SchemaMatch(p.match, s)
              /\ p.enum => s \in Branches
    /\ (p.type = "Number" /\ ~IsNull(p, v)) =>
          /\ p.min >= 0 => NumAtLeast(ToNumber(v), p.min)
          /\ p.integer => NumIsInteger(ToNumber(v))

\* document.validate(): every path of the schema is valid
SchemaValid(schema, data) ==
    \A i \in 1..Len(schema) : PathValid(schema[i], Given(data, schema[i].path))

PathDef(schema, path) == schema[CHOOSE i \in 1..Len(schema) : schema[i].path = path]

PathNames(schema) == {schema[i].path : i \in 1..Len(schema)}

\* the value a valid document stores for a path
PathValue(p, v, now) ==
    CASE p.type = "String" -> StringValue(p, v)
      [] p.type = "ObjectId" -> v
      [] p.type = "Number" -> ToNumber(v)
      [] p.type = "Date" -> DateValue(p, v, now)
      [] p.type = "Boolean" -> BooleanValue(p, v)

\* new Model(data): the schema's paths only, cast, with defaults applied
NewDocument(schema, data, now) ==
    [path \in PathNames(schema) |->
        PathValue(PathDef(schema, path), Given(data, path), now)]

(***************************************************************************)
(* Users and the authorization guard.                                      *)
(***************************************************************************)
Users ==
    [manager |-> [name |-> "Mary", email |-> "mary@karibu.com", role |-> "Manager"],
     agent |-> [name |-> "Sam", email |-> "sam@karibu.com", role |-> "Sales Agent"]]

UserIds == DOMAIN Users

\* a bearer credential is the identity it resolves to, or no valid credential
NoCredential == "none"

Credentials == UserIds \cup {NoCredential}

(***************************************************************************)
(* State.                                                                  *)
(***************************************************************************)
VARIABLES
    procurements,   \* the Procurement collection, in insertion order
    sales,          \* the Sale collection (Cash and Credit documents)
    now,            \* the clock
    storeUp,        \* is the database reachable
    req,            \* the last request
    res,            \* the response to it
    trace,          \* the middleware that ran for it, in order
    console,        \* what it wrote with console.error
    before,         \* the two collections as the last request found them
    payments,       \* the payment requests in flight, each at its await
    lastSaved       \* per sale, the paymentDate the latest save() wrote

vars ==
    << procurements, sales, now, storeUp, req, res, trace, console, before,
       payments, lastSaved >>

BodyFields ==
    {"produceName", "produceType", "date", "time", "tonnage", "cost", "dealerName",
     "branch", "contact", "sellingPrice", "amountPaid", "buyerName", "salesAgentName",
     "nationalId", "location", "contacts", "amountDue", "dueDate", "dispatchDate",
     "isPaid", "paymentDate", "recordedBy"}

EmptyBody == [f \in BodyFields |-> Undefined]

(***************************************************************************)
(* Responses.                                                              *)
(***************************************************************************)
ErrorResponse(status, message) == [status |-> status, error |-> message]

ValidationResponse(errors) == [status |-> 400, errors |-> errors]

DataResponse(status, data) == [status |-> status, success |-> TRUE, data |-> data]

ListResponse(list) ==
    [status |-> 200, success |-> TRUE, count |-> Len(list), data |-> list]

NoResponse == [status |-> 0]

(***************************************************************************)
(* The request context handed from one middleware to the next.             *)
(***************************************************************************)
NewContext ==
    [user |-> NoCredential, errors |-> << >>, trace |-> << >>, console |-> << >>,
     res |-> NoResponse, procurements |-> procurements, sales |-> sales]

Responded(ctx) == ctx.res # NoResponse

Respond(ctx, name, response) ==
    [ctx EXCEPT !.trace = Append(@, name), !.res = response]

\* catch (error) { console.error(error); res.status(500).json({ error: 'Server error' }) }
ServerError(ctx, name, error) ==
    [ctx EXCEPT !.trace = Append(@, name),
                !.console = Append(@, error),
                !.res = ErrorResponse(500, "Server error")]

\* a failure of the guard: answered, and its cause logged
Rejected(ctx, name, response, cause) ==
    [Respond(ctx, name, response) EXCEPT !.console = Append(@, cause)]

\* protect: resolve the bearer credential to a user or answer 401
protect(ctx, r) ==
    IF r.cred \in UserIds
    THEN [ctx EXCEPT !.user = r.cred, !.trace = Append(@, "protect")]
    ELSE Rejected(ctx, "protect", ErrorResponse(401, "Not authorized"), "Unauthenticated")

\* authorize(...roles): answer 403 unless the user's role is one of roles
authorize(roles, ctx) ==
    IF Users[ctx.user].role \in roles
    THEN [ctx EXCEPT !.trace = Append(@, "authorize")]
    ELSE Rejected(ctx, "authorize", ErrorResponse(403, "Forbidden"), "Forbidden")

\* the body(...) chains: they record their errors on the request and go on
validate(chain, ctx, r) ==
    [ctx EXCEPT !.errors = RunValidators(chain, r.body), !.trace = Append(@, "validate")]

(***************************************************************************)
(* The store.                                                              *)
(***************************************************************************)
ProcurementIds == 100
SaleIds == 200

\* an id that is no ObjectId at all, and a well-formed id of no document
MalformedId == 0
UnknownId == 999

IsObjectId(id) == id # MalformedId

\* Model.create(data): validate against the schema, then insert
CreateFails(schema, data) == ~storeUp \/ ~SchemaValid(schema, data)

CreateError(schema, data) == IF ~storeUp THEN "MongoNetworkError" ELSE "ValidationError"

NewProcurement(data) ==
    [_id |-> ProcurementIds + Len(procurements) + 1]
        @@ NewDocument(procurementSchema, data, now)

\* a discriminator document: saleType, and createdAt / updatedAt of timestamps: true
NewSale(saleType, schema, data) ==
    LET doc == NewDocument(schema, data, now)
    IN  [_id |-> SaleIds + Len(sales) + 1, saleType |-> saleType,
         updatedAt |-> doc.createdAt] @@ doc

Populate(doc) ==
    [doc EXCEPT !.recordedBy = [_id |-> @, name |-> Users[@].name, email |-> Users[@].email]]

RECURSIVE InsertNewest(_, _)
InsertNewest(doc, list) ==
    IF list = << >> THEN << doc >>
    ELSE IF doc.createdAt > Head(list).createdAt THEN << doc >> \o list
    ELSE << Head(list) >> \o InsertNewest(doc, Tail(list))

\* sort({ createdAt: -1 }); documents of one instant stay in insertion order
RECURSIVE SortNewestFirst(_)
SortNewestFirst(list) ==
    IF list = << >> THEN << >>
    ELSE InsertNewest(Head(list), SortNewestFirst(Tail(list)))

\* Model.find(query) of the Sale collection
FindSales(type) ==
    SelectSeq(sales, LAMBDA d : type = Undefined \/ d.saleType = type)

\* index of the document with this _id, 0 when there is none
IndexOf(list, id) ==
    IF \E i \in 1..Len(list) : list[i]._id = id
    THEN CHOOSE i \in 1..Len(list) : list[i]._id = id
    ELSE 0

\* CreditSale.findById(id): the discriminator model only finds Credit documents
CreditIndex(id) ==
    IF IndexOf(sales, id) # 0 /\ sales[IndexOf(sales, id)].saleType = "Credit"
    THEN IndexOf(sales, id)
    ELSE 0

(***************************************************************************)
(* Route handlers.                                                         *)
(***************************************************************************)
\* req.body.date || new Date()
OrNewDate(v) == IF v \in {Undefined, ""} THEN NewDate ELSE v

postProcurement(ctx, r) ==
    IF ctx.errors # << >>
    THEN Respond(ctx, "handler", ValidationResponse(ctx.errors))
    ELSE LET procurementData ==
                 [r.body EXCEPT !.recordedBy = ctx.user, !.date = OrNewDate(@)]
         IN  IF CreateFails(procurementSchema, procurementData)
             THEN ServerError(ctx, "handler", CreateError(procurementSchema, procurementData))
             ELSE LET procurement == NewProcurement(procurementData)
                  IN  [Respond(ctx, "handler", DataResponse(201, procurement))
                          EXCEPT !.procurements = Append(@, procurement)]

getProcurements(ctx, r) ==
    IF ~storeUp
    THEN ServerError(ctx, "handler", "MongoNetworkError")
    ELSE LET list == SortNewestFirst(procurements)
         IN  Respond(ctx, "handler",
                     ListResponse([i \in 1..Len(list) |-> Populate(list[i])]))

getProcurementById(ctx, r) ==
    IF ~storeUp
    THEN ServerError(ctx, "handler", "MongoNetworkError")
    ELSE IF ~IsObjectId(r.id)
    THEN ServerError(ctx, "handler", "CastError")
    ELSE IF IndexOf(procurements, r.id) = 0
    THEN Respond(ctx, "handler", ErrorResponse(404, "Procurement record not found"))
    ELSE Respond(ctx, "handler",
                 DataResponse(200, Populate(procurements[IndexOf(procurements, r.id)])))

\* postCash with the spread last: { recordedBy: req.user._id, ...req.body }
postCashBodyLast(ctx, r) ==
    IF ctx.errors # << >>
    THEN Respond(ctx, "handler", ValidationResponse(ctx.errors))
    ELSE LET saleData ==
                 [r.body EXCEPT !.recordedBy = IF @ = Undefined THEN ctx.user ELSE @,
                                !.date = OrNewDate(@)]
         IN  IF CreateFails(CashSaleSchema, saleData)
             THEN ServerError(ctx, "handler", CreateError(CashSaleSchema, saleData))
             ELSE LET sale == NewSale("Cash", CashSaleSchema, saleData)
                  IN  [Respond(ctx, "handler", DataResponse(201, sale))
                          EXCEPT !.sales = Append(@, sale)]

postCash(ctx, r) ==
    IF ctx.errors # << >>
    THEN Respond(ctx, "handler", ValidationResponse(ctx.errors))
    ELSE LET saleData == [r.body EXCEPT !.recordedBy = ctx.user, !.date = OrNewDate(@)]
         IN  IF CreateFails(CashSaleSchema, saleData)
             THEN ServerError(ctx, "handler", CreateError(CashSaleSchema, saleData))
             ELSE LET sale == NewSale("Cash", CashSaleSchema, saleData)
                  IN  [Respond(ctx, "handler", DataResponse(201, sale))
                          EXCEPT !.sales = Append(@, sale)]

\* postCredit without the check of validationResult(req)
postCreditUnchecked(ctx, r) ==
    LET saleData ==
            [r.body EXCEPT !.recordedBy = ctx.user, !.dispatchDate = OrNewDate(@)]
    IN  IF CreateFails(CreditSaleSchema, saleData)
        THEN ServerError(ctx, "handler", CreateError(CreditSaleSchema, saleData))
        ELSE LET sale == NewSale("Credit", CreditSaleSchema, saleData)
             IN  [Respond(ctx, "handler", DataResponse(201, sale))
                     EXCEPT !.sales = Append(@, sale)]

postCredit(ctx, r) ==
    IF ctx.errors # << >>
    THEN Respond(ctx, "handler", ValidationResponse(ctx.errors))
    ELSE LET saleData ==
                 [r.body EXCEPT !.recordedBy = ctx.user, !.dispatchDate = OrNewDate(@)]
         IN  IF CreateFails(CreditSaleSchema, saleData)
             THEN ServerError(ctx, "handler", CreateError(CreditSaleSchema, saleData))
             ELSE LET sale == NewSale("Credit", CreditSaleSchema, saleData)
                  IN  [Respond(ctx, "handler", DataResponse(201, sale))
                          EXCEPT !.sales = Append(@, sale)]

\* the names salesRoutes.js binds from '../models/Sale'
SalesRouteModels == {"CashSale", "CreditSale"}

getSales(ctx, r) ==
    IF "Sale" \notin SalesRouteModels
    THEN ServerError(ctx, "handler", "ReferenceError")
    ELSE IF ~storeUp
    THEN ServerError(ctx, "handler", "MongoNetworkError")
    ELSE LET list == SortNewestFirst(FindSales(r.type))
         IN  Respond(ctx, "handler",
                     ListResponse([i \in 1..Len(list) |-> Populate(list[i])]))

\* MarkPaid that keeps the paymentDate of a sale that has one
MarkPaidOnce(sale) ==
    [sale EXCEPT !.isPaid = TRUE,
                 !.paymentDate = IF sale.paymentDate # NoDate THEN @ ELSE now,
                 !.updatedAt = IF sale.isPaid /\ sale.paymentDate # NoDate THEN @ ELSE now]

\* MarkPaid that also settles the amount due
MarkPaidSettled(sale) ==
    [sale EXCEPT !.isPaid = TRUE,
                 !.paymentDate = now,
                 !.amountDue = [neg |-> FALSE, whole |-> 0, frac |-> ""],
                 !.updatedAt = now]

\* sale.isPaid = true; sale.paymentDate = new Date(); save() stamps updatedAt
\* when the document was modified
MarkPaid(sale) ==
    [sale EXCEPT !.isPaid = TRUE,
                 !.paymentDate = now,
                 !.updatedAt = IF sale.isPaid /\ sale.paymentDate = now THEN @ ELSE now]

\* the handler without its if (!sale) return: sale.isPaid = true throws on null
patchPaymentNoCheck(ctx, r) ==
    IF ~storeUp
    THEN ServerError(ctx, "handler", "MongoNetworkError")
    ELSE IF ~IsObjectId(r.id)
    THEN ServerError(ctx, "handler", "CastError")
    ELSE IF CreditIndex(r.id) = 0
    THEN ServerError(ctx, "handler", "TypeError")
    ELSE LET sale == MarkPaid(sales[CreditIndex(r.id)])
         IN  [Respond(ctx, "handler", DataResponse(200, sale))
                 EXCEPT !.sales[CreditIndex(r.id)] = sale]

patchPayment(ctx, r) ==
    IF ~storeUp
    THEN ServerError(ctx, "handler", "MongoNetworkError")
    ELSE IF ~IsObjectId(r.id)
    THEN ServerError(ctx, "handler", "CastError")
    ELSE IF CreditIndex(r.id) = 0
    THEN Respond(ctx, "handler", ErrorResponse(404, "Credit sale not found"))
    ELSE LET sale == MarkPaid(sales[CreditIndex(r.id)])
         IN  [Respond(ctx, "handler", DataResponse(200, sale))
                 EXCEPT !.sales[CreditIndex(r.id)] = sale]

(***************************************************************************)
(* Routes: the middleware of each endpoint, in the order it is mounted.    *)
(***************************************************************************)
Protect == [mw |-> "protect"]
Authorize(roles) == [mw |-> "authorize", roles |-> roles]
Validate(chain) == [mw |-> "validate", chain |-> chain]
Handler(name) == [mw |-> "handler", name |-> name]

\* the procurement route with the allow-list of the sales routes
PostProcurementRouteAnyRole ==
    << Protect, Authorize({"Sales Agent", "Manager"}), Validate(ProcurementValidators),
       Handler("postProcurement") >>

PostProcurementRoute ==
    << Protect, Authorize({"Manager"}), Validate(ProcurementValidators),
       Handler("postProcurement") >>

GetProcurementsRoute == << Protect, Handler("getProcurements") >>

GetProcurementByIdRoute == << Protect, Handler("getProcurementById") >>

PostCashRoute ==
    << Protect, Authorize({"Sales Agent", "Manager"}), Validate(CashValidators),
       Handler("postCash") >>

PostCreditRoute ==
    << Protect, Authorize({"Sales Agent", "Manager"}), Validate(CreditValidators),
       Handler("postCredit") >>

GetSalesRoute == << Protect, Handler("getSales") >>

\* the payment route without protect
PatchPaymentRouteOpen == << Handler("patchPayment") >>

PatchPaymentRoute == << Protect, Handler("patchPayment") >>

RunHandler(name, ctx, r) ==
    CASE name = "postProcurement" -> postProcurement(ctx, r)
      [] name = "getProcurements" -> getProcurements(ctx, r)
      [] name = "getProcurementById" -> getProcurementById(ctx, r)
      [] name = "postCash" -> postCash(ctx, r)
      [] name = "postCredit" -> postCredit(ctx, r)
      [] name = "getSales" -> getSales(ctx, r)
      [] name = "patchPayment" -> patchPayment(ctx, r)

RunMiddleware(m, ctx, r) ==
    CASE m.mw = "protect" -> protect(ctx, r)
      [] m.mw = "authorize" -> authorize(m.roles, ctx)
      [] m.mw = "validate" -> validate(m.chain, ctx, r)
      [] m.mw = "handler" -> RunHandler(m.name, ctx, r)

\* express runs the middleware in order until one of them answers
RECURSIVE Run(_, _, _)
Run(route, ctx, r) ==
    IF route = << >> \/ Responded(ctx) THEN ctx
    ELSE Run(Tail(route), RunMiddleware(Head(route), ctx, r), r)

(***************************************************************************)
(* Requests.                                                               *)
(***************************************************************************)
Request(op, cred, body, id, type) ==
    [op |-> op, cred |-> cred, body |-> body, id |-> id, type |-> type]

NoRequest == Request("none", NoCredential, EmptyBody, MalformedId, Undefined)

ProcurementBody ==
    [produceName |-> "Maize", produceType |-> "Cereal", time |-> "14:30",
     tonnage |-> "150", cost |-> "500000", dealerName |-> "John Doe",
     branch |-> "Maganjo", contact |-> "0771234567", sellingPrice |-> "2000"]
        @@ EmptyBody

ProcurementBodies ==
    { ProcurementBody,
      [ProcurementBody EXCEPT !.tonnage = "100", !.cost = "10000", !.sellingPrice = "1000",
                              !.recordedBy = "agent"],
      [ProcurementBody EXCEPT !.tonnage = "99"],
      [ProcurementBody EXCEPT !.tonnage = "100.5"],
      [ProcurementBody EXCEPT !.cost = "9999.5"],
      [ProcurementBody EXCEPT !.sellingPrice = "999"],
      [ProcurementBody EXCEPT !.branch = "Kampala"],
      [ProcurementBody EXCEPT !.produceType = "C", !.tonnage = "99", !.branch = "Kampala"],
      [ProcurementBody EXCEPT !.produceName = " "],
      EmptyBody }

CashBody ==
    [produceName |-> "Beans", tonnage |-> "1", amountPaid |-> "10000",
     buyerName |-> "Jane Roe", salesAgentName |-> "Sam", time |-> "9:05"]
        @@ EmptyBody

CashBodies ==
    { CashBody,
      [CashBody EXCEPT !.recordedBy = "manager"],
      [CashBody EXCEPT !.tonnage = "0"],
      [CashBody EXCEPT !.amountPaid = "9999"],
      [CashBody EXCEPT !.tonnage = "0", !.amountPaid = "9999", !.time = "24:00"],
      [CashBody EXCEPT !.produceName = " "],
      EmptyBody }

CreditBody ==
    [buyerName |-> "Jane Roe", nationalId |-> "CM12345678AB", location |-> "Kampala",
     contacts |-> "0771234567", amountDue |-> "10000.50", salesAgentName |-> "Sam",
     dueDate |-> "2023-12-31", produceName |-> "Beans", produceType |-> "Legume",
     tonnage |-> "1"]
        @@ EmptyBody

CreditBodies ==
    { CreditBody,
      [CreditBody EXCEPT !.recordedBy = "manager"],
      [CreditBody EXCEPT !.isPaid = "true", !.paymentDate = "2030-01-15"],
      [CreditBody EXCEPT !.isPaid = "maybe"],
      [CreditBody EXCEPT !.amountDue = "9999"],
      [CreditBody EXCEPT !.tonnage = "0", !.dueDate = "01/03/2024", !.nationalId = "cm123"],
      EmptyBody }

ProcurementIdInputs == {ProcurementIds + 1, UnknownId, MalformedId}

SaleIdInputs ==
    {SaleIds + i : i \in 1..MaxRecords} \cup {UnknownId, MalformedId}

SaleTypeInputs == {Undefined, "Credit"}

\* the create requests: every body from a caller the route admits, and a valid
\* and an invalid body from every caller
PostRequests(op, admitted, valid, bodies) ==
    {Request(op, cred, body, MalformedId, Undefined) :
        cred \in admitted, body \in bodies}
    \cup {Request(op, cred, body, MalformedId, Undefined) :
            cred \in Credentials, body \in {valid, EmptyBody}}

(***************************************************************************)
(* Specification.                                                          *)
(***************************************************************************)
NoSnapshot == [procurements |-> << >>, sales |-> << >>]

\* the payment requests that can be in flight at once
PaymentRequests == 1..MaxPayments

\* a payment request: where it stands (pc), the document findById gave it
\* (found), that document as the handler has changed it (doc), its response
NoDocument == [_id |-> MalformedId]

NoPayment ==
    [pc |-> "idle", cred |-> NoCredential, id |-> MalformedId,
     found |-> NoDocument, doc |-> NoDocument, console |-> << >>, res |-> NoResponse]

Init ==
    /\ procurements = << >>
    /\ sales = << >>
    /\ now = Clock0
    /\ storeUp = TRUE
    /\ req = NoRequest
    /\ res = NoResponse
    /\ trace = << >>
    /\ console = << >>
    /\ before = NoSnapshot
    /\ payments = [w \in PaymentRequests |-> NoPayment]
    /\ lastSaved = [id \in SaleIdInputs |-> NoDate]

\* one request served from arrival to response; the next one is served once
\* this response has been delivered (req = NoRequest)
Serve(route, r) ==
    \E ctx \in {Run(route, NewContext, r)} :
        /\ Len(ctx.procurements) + Len(ctx.sales) <= MaxRecords
        /\ procurements' = ctx.procurements
        /\ sales' = ctx.sales
        /\ req' = r
        /\ res' = ctx.res
        /\ trace' = ctx.trace
        /\ console' = ctx.console
        /\ before' = [procurements |-> procurements, sales |-> sales]
        /\ UNCHANGED << now, storeUp, payments, lastSaved >>

PostProcurement ==
    \E r \in PostRequests("POST /procurement", {"manager"}, ProcurementBody, ProcurementBodies) :
        /\ req = NoRequest
        /\ Serve(PostProcurementRoute, r)

GetProcurements ==
    \E cred \in Credentials :
        /\ req = NoRequest
        /\ Serve(GetProcurementsRoute,
                 Request("GET /procurement", cred, EmptyBody, MalformedId, Undefined))

GetProcurementById ==
    \E cred \in Credentials, id \in ProcurementIdInputs :
        /\ req = NoRequest
        /\ Serve(GetProcurementByIdRoute,
                 Request("GET /procurement/:id", cred, EmptyBody, id, Undefined))

PostCash ==
    \E r \in PostRequests("POST /sales/cash", {"agent"}, CashBody, CashBodies) :
        /\ req = NoRequest
        /\ Serve(PostCashRoute, r)

PostCredit ==
    \E r \in PostRequests("POST /sales/credit", {"agent"}, CreditBody, CreditBodies) :
        /\ req = NoRequest
        /\ Serve(PostCreditRoute, r)

GetSales ==
    \E cred \in Credentials, type \in SaleTypeInputs :
        /\ req = NoRequest
        /\ Serve(GetSalesRoute, Request("GET /sales", cred, EmptyBody, MalformedId, type))

PatchPayment ==
    \E cred \in Credentials, id \in SaleIdInputs :
        /\ req = NoRequest
        /\ Serve(PatchPaymentRoute,
                 Request("PATCH /sales/credit/:id/payment", cred, EmptyBody, id, Undefined))

\* the client receives the response
Deliver ==
    /\ req # NoRequest
    /\ req' = NoRequest
    /\ res' = NoResponse
    /\ trace' = << >>
    /\ console' = << >>
    /\ before' = NoSnapshot
    /\ UNCHANGED << procurements, sales, now, storeUp, payments, lastSaved >>

\* time passes between requests
Tick ==
    /\ req = NoRequest
    /\ now < Clock0 + MaxClock
    /\ now' = now + 1
    /\ UNCHANGED << procurements, sales, storeUp, req, res, trace, console, before,
                    payments, lastSaved >>

Next ==
    \/ PostProcurement
    \/ GetProcurements
    \/ GetProcurementById
    \/ PostCash
    \/ PostCredit
    \/ GetSales
    \/ PatchPayment
    \/ Deliver
    \/ Tick

Spec == Init /\ [][Next]_vars

\* the database connection is lost, and comes back
StoreGoesDown ==
    /\ req = NoRequest
    /\ storeUp
    /\ storeUp' = FALSE
    /\ UNCHANGED << procurements, sales, now, req, res, trace, console, before,
                    payments, lastSaved >>

StoreComesBack ==
    /\ req = NoRequest
    /\ ~storeUp
    /\ storeUp' = TRUE
    /\ UNCHANGED << procurements, sales, now, req, res, trace, console, before,
                    payments, lastSaved >>

NextFault == Next \/ StoreGoesDown \/ StoreComesBack

\* the routes over a store that can be unreachable
SpecFault == Init /\ [][NextFault]_vars

(***************************************************************************)
(* Payment requests in flight together.  The handler gives way at its two  *)
(* awaits, findById and save, and the requests interleave there.           *)
(***************************************************************************)
\* the schema with optimisticConcurrency: save() throws a VersionError when
\* the stored document has changed since it was read
optimisticConcurrencyOn == TRUE

\* the options of saleSchema do not set optimisticConcurrency
optimisticConcurrency == FALSE

\* the paths the handler has changed since findById: what save() will $set
ModifiedPaths(found, doc) == {f \in DOMAIN doc : doc[f] # found[f]}

\* save(): the stored document with the modified paths of doc written over it
SaveDocument(stored, found, doc) ==
    [f \in DOMAIN stored |->
        IF f \in ModifiedPaths(found, doc) THEN doc[f] ELSE stored[f]]

Answer(w, response) ==
    [payments EXCEPT ![w].pc = "done", ![w].res = response]

Fail(w, error) ==
    [payments EXCEPT ![w].pc = "done", ![w].console = Append(@, error),
                     ![w].res = ErrorResponse(500, "Server error")]

\* the ids the concurrent requests name: the first sale, and no sale
PaymentIdInputs == {SaleIds + 1, UnknownId}

\* the request arrives, protect admits it, and findById reads the store:
\* const sale = await CreditSale.findById(req.params.id); if (!sale) return 404.
\* Requests are numbered as they arrive.
PayFind ==
    \E w \in PaymentRequests, cred \in Credentials, id \in PaymentIdInputs :
        /\ req = NoRequest
        /\ payments[w].pc = "idle"
        /\ \A v \in 1..(w - 1) : payments[v].pc # "idle"
        /\ payments' =
              [(IF cred \notin UserIds
                THEN [Answer(w, ErrorResponse(401, "Not authorized"))
                         EXCEPT ![w].console = Append(@, "Unauthenticated")]
                ELSE IF ~storeUp THEN Fail(w, "MongoNetworkError")
                ELSE IF ~IsObjectId(id) THEN Fail(w, "CastError")
                ELSE IF CreditIndex(id) = 0
                THEN Answer(w, ErrorResponse(404, "Credit sale not found"))
                ELSE [payments EXCEPT ![w].pc = "assign",
                                      ![w].found = sales[CreditIndex(id)],
                                      ![w].doc = sales[CreditIndex(id)]])
                  EXCEPT ![w].cred = cred, ![w].id = id]
        /\ UNCHANGED << procurements, sales, now, storeUp, req, res, trace, console,
                        before, lastSaved >>

\* sale.isPaid = true; sale.paymentDate = new Date(); and save() is called
PayAssign ==
    \E w \in PaymentRequests :
        /\ payments[w].pc = "assign"
        /\ payments' = [payments EXCEPT ![w].pc = "save",
                                        ![w].doc = MarkPaid(payments[w].found)]
        /\ UNCHANGED << procurements, sales, now, storeUp, req, res, trace, console,
                        before, lastSaved >>

\* await sale.save() reaches the store; res.status(200).json({ data: sale })
PaySave ==
    \E w \in PaymentRequests :
        LET p == payments[w]
            i == IndexOf(sales, p.id)
        IN  /\ p.pc = "save"
            /\ IF ~storeUp
               THEN /\ payments' = Fail(w, "MongoNetworkError")
                    /\ UNCHANGED << sales, lastSaved >>
               ELSE IF optimisticConcurrency /\ sales[i] # p.found
                       /\ ModifiedPaths(p.found, p.doc) # {}
               THEN /\ payments' = Fail(w, "VersionError")
                    /\ UNCHANGED << sales, lastSaved >>
               ELSE /\ payments' = Answer(w, DataResponse(200, p.doc))
                    /\ sales' = [sales EXCEPT ![i] = SaveDocument(@, p.found, p.doc)]
                    /\ lastSaved' =
                          IF "paymentDate" \in ModifiedPaths(p.found, p.doc)
                          THEN [lastSaved EXCEPT ![p.id] = p.doc.paymentDate]
                          ELSE lastSaved
            /\ UNCHANGED << procurements, now, storeUp, req, res, trace, console, before >>

\* the sale the payment requests are about is created before they arrive
PostCreditBefore ==
    /\ sales = << >>
    /\ \A w \in PaymentRequests : payments[w].pc = "idle"
    /\ PostCredit

NextConcurrent ==
    \/ PostCreditBefore
    \/ Deliver
    \/ Tick
    \/ PayFind
    \/ PayAssign
    \/ PaySave

\* credit sales are created, time passes, and payment requests run together
SpecConcurrent == Init /\ [][NextConcurrent]_vars

(***************************************************************************)
(* Vocabulary of the properties.                                           *)
(***************************************************************************)
CreateOps == {"POST /procurement", "POST /sales/cash", "POST /sales/credit"}

Answered == req.op # NoRequest.op

Authenticated == req.cred \in UserIds

\* the roles each create operation is meant to admit
AllowList(op) ==
    IF op = "POST /procurement" THEN {"Manager"} ELSE {"Sales Agent", "Manager"}

PassedGuard == Authenticated /\ Users[req.cred].role \in AllowList(req.op)

RulesOf(op) ==
    CASE op = "POST /procurement" -> ProcurementValidators
      [] op = "POST /sales/cash" -> CashValidators
      [] op = "POST /sales/credit" -> CreditValidators

\* the fields of a body that break one of the operation's rules
ViolatingFields(op, body) ==
    {RulesOf(op)[i].field :
        i \in {j \in 1..Len(RulesOf(op)) :
                  ~Passes(RulesOf(op)[j], StringOf(body[RulesOf(op)[j].field]))}}

ErrorFields == {res.errors[i].field : i \in 1..Len(res.errors)}

StoreUntouched == procurements = before.procurements /\ sales = before.sales

RecordCount == Len(procurements) + Len(sales)

\* C1: a create request with a field violation is answered 400 with a
\* non-empty errors list once it is past the guard, and whoever sent it the
\* persisted records are exactly those found before the request.
C1_ValidationAllOrNothing ==
    (Answered /\ req.op \in CreateOps /\ ViolatingFields(req.op, req.body) # {}) =>
        /\ StoreUntouched
        /\ PassedGuard => (res.status = 400 /\ Len(res.errors) >= 1)

C1_Witness ==
    /\ Answered
    /\ req.op = "POST /sales/credit"
    /\ ViolatingFields(req.op, req.body) # {}
    /\ res.status = 400
    /\ RecordCount >= 1
    /\ StoreUntouched

\* C2: on every endpoint a request without a valid credential is answered 401
\* by the guard, the only middleware that ran, so no validation ran and no
\* record was created or modified.
C2_UnauthenticatedFirst ==
    (Answered /\ ~Authenticated) =>
        /\ res.status = 401
        /\ trace = << "protect" >>
        /\ StoreUntouched

C2_Witness ==
    /\ Answered
    /\ ~Authenticated
    /\ req.op = "PATCH /sales/credit/:id/payment"
    /\ CreditIndex(req.id) # 0
    /\ res.status = 401
    /\ ~sales[CreditIndex(req.id)].isPaid

SchemaOf(op) ==
    CASE op = "POST /procurement" -> procurementSchema
      [] op = "POST /sales/cash" -> CashSaleSchema
      [] op = "POST /sales/credit" -> CreditSaleSchema

\* a body whose fields are all valid: no rule of the route is broken and the
\* model's schema accepts the document
ValidFields(op, body, user) ==
    /\ ViolatingFields(op, body) = {}
    /\ SchemaValid(SchemaOf(op), [body EXCEPT !.recordedBy = user])

RoleOfCaller == Users[req.cred].role

LowerBounds ==
    { [op |-> "POST /procurement", field |-> "tonnage", min |-> 100, integer |-> TRUE],
      [op |-> "POST /procurement", field |-> "cost", min |-> 10000, integer |-> FALSE],
      [op |-> "POST /procurement", field |-> "sellingPrice", min |-> 1000, integer |-> FALSE],
      [op |-> "POST /sales/cash", field |-> "tonnage", min |-> 1, integer |-> FALSE],
      [op |-> "POST /sales/cash", field |-> "amountPaid", min |-> 10000, integer |-> FALSE],
      [op |-> "POST /sales/credit", field |-> "tonnage", min |-> 1, integer |-> FALSE],
      [op |-> "POST /sales/credit", field |-> "amountDue", min |-> 10000, integer |-> FALSE] }

OpOfRecord(doc) ==
    IF "saleType" \notin DOMAIN doc THEN "POST /procurement"
    ELSE IF doc.saleType = "Cash" THEN "POST /sales/cash"
    ELSE "POST /sales/credit"

\* a stored number within a bound
WithinBound(n, b) == ~n.neg /\ n.whole >= b.min /\ (b.integer => n.frac = "")

RecordWithinBounds(doc) ==
    /\ \A b \in LowerBounds : b.op = OpOfRecord(doc) => WithinBound(doc[b.field], b)
    /\ OpOfRecord(doc) = "POST /procurement" => doc.branch \in {"Maganjo", "Matugga"}

\* the bounded fields of a body that are missing, not numbers or out of bound
OutOfBoundFields(op, body) ==
    {b.field : b \in {c \in LowerBounds :
                        /\ c.op = op
                        /\ ~(/\ IsNumeral(StringOf(body[c.field]))
                             /\ WithinBound(ToNumber(StringOf(body[c.field])), c))}}
        \cup (IF op = "POST /procurement" /\ body.branch \notin {"Maganjo", "Matugga"}
              THEN {"branch"} ELSE {})

\* C4: every persisted record is within its lower bounds (and a Procurement's
\* branch is Maganjo or Matugga), and a create request past the guard with a
\* field out of bound is answered 400 naming that field and stores nothing.
C4_LowerBounds ==
    /\ \A i \in 1..Len(procurements) : RecordWithinBounds(procurements[i])
    /\ \A i \in 1..Len(sales) : RecordWithinBounds(sales[i])
    /\ (Answered /\ req.op \in CreateOps /\ PassedGuard) =>
          \A outOfBound \in {OutOfBoundFields(req.op, req.body)} :
              outOfBound # {} =>
                  /\ res.status = 400
                  /\ outOfBound \subseteq ErrorFields
                  /\ StoreUntouched

C4_Witness ==
    /\ Answered
    /\ req.op = "POST /procurement"
    /\ PassedGuard
    /\ OutOfBoundFields(req.op, req.body) = {"tonnage"}
    /\ res.status = 400
    /\ \E i \in 1..Len(procurements) :
          procurements[i].tonnage = [neg |-> FALSE, whole |-> 100, frac |-> ""]
    /\ \E i \in 1..Len(sales) : sales[i].saleType = "Credit"

\* C5: every credit sale is created unpaid: after any successful
\* POST /sales/credit the new record has isPaid = false and no paymentDate.
C5_CreatedUnpaid ==
    (Answered /\ req.op = "POST /sales/credit" /\ res.status = 201) =>
        /\ ~res.data.isPaid
        /\ res.data.paymentDate = NoDate
        /\ ~sales[Len(sales)].isPaid
        /\ sales[Len(sales)].paymentDate = NoDate

\* C6: the payment endpoint, called by any authenticated user on an existing
\* credit sale, paid already or not, answers 200 and leaves the sale with
\* isPaid = true and paymentDate = the time of the call.
C6_PaymentNotGuarded ==
    (/\ Answered
     /\ req.op = "PATCH /sales/credit/:id/payment"
     /\ Authenticated
     /\ \E i \in 1..Len(before.sales) :
           before.sales[i]._id = req.id /\ before.sales[i].saleType = "Credit") =>
        /\ res.status = 200
        /\ res.data._id = req.id
        /\ res.data.isPaid
        /\ res.data.paymentDate = now
        /\ sales[CreditIndex(req.id)].isPaid
        /\ sales[CreditIndex(req.id)].paymentDate = now

\* a repeated call: the sale was paid at an earlier time, and is re-dated
C6_Witness ==
    /\ Answered
    /\ req.op = "PATCH /sales/credit/:id/payment"
    /\ res.status = 200
    /\ \E i \in 1..Len(before.sales) :
          /\ before.sales[i]._id = req.id
          /\ before.sales[i].isPaid
          /\ before.sales[i].paymentDate >= Clock0
          /\ before.sales[i].paymentDate < now
          /\ before.sales[i].updatedAt = before.sales[i].paymentDate
          /\ sales[i].paymentDate = now

\* C7: once a credit sale has isPaid = true, it keeps isPaid = true and a
\* paymentDate, and its paymentDate never decreases.
C7_NoUnpay ==
    [][\A i \in 1..Len(sales) :
          (sales[i].saleType = "Credit" /\ sales[i].isPaid) =>
              /\ sales'[i].isPaid
              /\ sales'[i].paymentDate # NoDate
              /\ sales'[i].paymentDate >= sales[i].paymentDate]_vars

IdsOf(list) == {list[i]._id : i \in 1..Len(list)}

\* C8: GET /sales by an authenticated user answers 200 with count = the number
\* of returned records and data = the sale records of the requested type (all
\* of them without ?type), newest createdAt first.
C8_ListSales ==
    (Answered /\ req.op = "GET /sales" /\ Authenticated) =>
        /\ res.status = 200
        /\ res.count = Len(res.data)
        /\ IdsOf(res.data) = IdsOf(FindSales(req.type))
        /\ Len(res.data) = Len(FindSales(req.type))
        /\ \A i \in 1..(Len(res.data) - 1) : res.data[i].createdAt >= res.data[i + 1].createdAt

SameExcept(d, e, fields) == \A f \in (DOMAIN d) \ fields : d[f] = e[f]

ReadOps == {"GET /procurement", "GET /procurement/:id", "GET /sales"}

\* what a step may do to the store: records stay, Procurement and CashSale
\* records stay as they are, a CreditSale changes in the given fields only,
\* a read changes nothing and a payment changes its own sale only
OnlyCreditFieldsChange(fields) ==
    /\ Len(procurements') >= Len(procurements)
    /\ \A i \in 1..Len(procurements) : procurements'[i] = procurements[i]
    /\ Len(sales') >= Len(sales)
    /\ \A i \in 1..Len(sales) :
          IF sales[i].saleType = "Credit"
          THEN SameExcept(sales[i], sales'[i], fields)
          ELSE sales'[i] = sales[i]
    /\ (req'.op \in ReadOps) => (procurements' = procurements /\ sales' = sales)
    /\ (req'.op = "PATCH /sales/credit/:id/payment") =>
          /\ Len(sales') = Len(sales)
          /\ \A i \in 1..Len(sales) : sales[i]._id # req'.id => sales'[i] = sales[i]

\* C9 as stated: no record is removed and nothing of a persisted record
\* changes but isPaid and paymentDate of a CreditSale.
C9_Original == [][OnlyCreditFieldsChange({"isPaid", "paymentDate"})]_vars

\* C9 as amended: no record is removed and nothing of a persisted record
\* changes but isPaid, paymentDate and updatedAt of a CreditSale.
C9_FrameEffect == [][OnlyCreditFieldsChange({"isPaid", "paymentDate", "updatedAt"})]_vars

C9_Witness ==
    /\ Answered
    /\ req.op = "PATCH /sales/credit/:id/payment"
    /\ res.status = 200
    /\ Len(sales) >= 2
    /\ sales # before.sales
    /\ sales[CreditIndex(req.id)].updatedAt > sales[CreditIndex(req.id)].createdAt

\* C10: the errors list of a 400 response to a create request names exactly
\* the fields of the body that break a rule, all of them.
C10_AllViolationsReported ==
    (Answered /\ req.op \in CreateOps /\ res.status = 400) =>
        ErrorFields = ViolatingFields(req.op, req.body)

C10_Witness ==
    /\ Answered
    /\ req.op = "POST /sales/credit"
    /\ res.status = 400
    /\ Cardinality(ViolatingFields(req.op, req.body)) = 3
    /\ res.errors[1].field # res.errors[Len(res.errors)].field

PaymentOp == "PATCH /sales/credit/:id/payment"

\* the request found a Credit document with this _id
ResolvedCreditSale(id) ==
    \E i \in 1..Len(before.sales) :
        before.sales[i]._id = id /\ before.sales[i].saleType = "Credit"

ResolvedCashSale(id) ==
    \E i \in 1..Len(before.sales) :
        before.sales[i]._id = id /\ before.sales[i].saleType = "Cash"

FailureStatuses == {400, 401, 403, 404, 500}

\* the causes the catch blocks log
StoreErrors == {"MongoNetworkError", "ValidationError", "CastError", "ReferenceError"}

\* the response is an error response: an errors list or one error string
IsErrorResponse ==
    \/ DOMAIN res = {"status", "errors"} /\ res.errors # << >>
    \/ DOMAIN res = {"status", "error"}

\* C12: every request that ends in a validation failure, Unauthenticated,
\* Forbidden, NotFound or a storage failure is answered with an error response
\* and has logged its cause; the response to a storage failure is the generic
\* server error, which names no cause.
C12_FailuresLogged ==
    (Answered /\ res.status \in FailureStatuses) =>
        /\ IsErrorResponse
        /\ console # << >>
        /\ res.status = 500 =>
              /\ res = ErrorResponse(500, "Server error")
              /\ res.error \notin StoreErrors

\* the payment request found the credit sale it names
FoundSale(w) == payments[w].found._id # MalformedId

Completed(w) == payments[w].pc = "done" /\ FoundSale(w)

InFlight(w) == payments[w].pc \in {"assign", "save"}

\* C13: of the payment requests that run together, every one that found its
\* credit sale answers 200 with a paid, dated document; once one of them has
\* completed the stored sale is paid and dated, whatever the others are doing;
\* and when none is left in flight its paymentDate is the one the latest
\* writing save() wrote, which is the timestamp of one of the requests.
C13_ConcurrentPayments ==
    \A w \in PaymentRequests :
        Completed(w) =>
            LET sale == sales[IndexOf(sales, payments[w].id)]
            IN  /\ payments[w].res = DataResponse(200, payments[w].doc)
                /\ payments[w].doc.isPaid
                /\ payments[w].doc.paymentDate # NoDate
                /\ sale.isPaid
                /\ sale.paymentDate # NoDate
                /\ (\A v \in PaymentRequests :
                        ~(InFlight(v) /\ payments[v].id = payments[w].id)) =>
                      /\ sale.paymentDate = lastSaved[payments[w].id]
                      /\ \E v \in PaymentRequests :
                            /\ Completed(v)
                            /\ payments[v].id = payments[w].id
                            /\ payments[v].doc.paymentDate = sale.paymentDate

\* two requests both found the sale unpaid, the one that stamped it later
\* saved first, and the stored paymentDate is the earlier stamp, saved last
C13_Witness ==
    \E w, v \in PaymentRequests :
        /\ Completed(w) /\ Completed(v)
        /\ payments[w].id = payments[v].id
        /\ ~payments[w].found.isPaid /\ ~payments[v].found.isPaid
        /\ payments[w].doc.paymentDate < payments[v].doc.paymentDate
        /\ sales[IndexOf(sales, payments[w].id)].paymentDate = payments[w].doc.paymentDate
        /\ lastSaved[payments[w].id] = payments[w].doc.paymentDate

\* the record the last request created
CreatedRecord ==
    IF req.op = "POST /procurement" THEN procurements[Len(procurements)]
    ELSE sales[Len(sales)]

\* every record refers to one user, and the record a create request has just
\* made refers to the caller
RecordedByCaller ==
    /\ \A i \in 1..Len(procurements) : procurements[i].recordedBy \in UserIds
    /\ \A i \in 1..Len(sales) : sales[i].recordedBy \in UserIds
    /\ (Answered /\ req.op \in CreateOps /\ res.status = 201) =>
          /\ RecordCount = Len(before.procurements) + Len(before.sales) + 1
          /\ CreatedRecord.recordedBy = req.cred
          /\ res.data.recordedBy = req.cred

\* no step changes the recordedBy of a record or removes a record
RecordedByKept ==
    /\ Len(procurements') >= Len(procurements)
    /\ Len(sales') >= Len(sales)
    /\ \A i \in 1..Len(procurements) :
          procurements'[i].recordedBy = procurements[i].recordedBy
    /\ \A i \in 1..Len(sales) : sales'[i].recordedBy = sales[i].recordedBy

\* C14: in every reachable state every Procurement, CashSale and CreditSale
\* holds one recordedBy reference to a user; it is the authenticated caller of
\* the creating request, whatever recordedBy the body supplied, and it stays
\* that for as long as the record exists.
C14_RecordedBy == []RecordedByCaller /\ [][RecordedByKept]_vars

C14_Witness ==
    /\ Answered
    /\ req.op = "POST /sales/cash"
    /\ res.status = 201
    /\ req.body.recordedBy \in UserIds \ {req.cred}
    /\ CreatedRecord.recordedBy = req.cred
    /\ \E i \in 1..Len(procurements) :
          procurements[i].recordedBy = "manager" /\ req.cred # "manager"

====
